---- MODULE Spec2Model ----
(***************************************************************************)
(* Model of gcrs (src/gcroot.rs): parsing the listing of                   *)
(* "nix-store --gc --print-roots", classifying roots as profile            *)
(* generations, grouping them into profiles and the deletable predicate.   *)
(*                                                                         *)
(* Strings are sequences of one-character strings, so that splitting,      *)
(* prefix tests and number parsing are computed as the code computes them. *)
(***************************************************************************)
EXTENDS Integers, Sequences, FiniteSets, TLC

VARIABLES pc, output, fs, li, gcroots, profiles, standalone, gi, arg, call, ret

vars == <<pc, output, fs, li, gcroots, profiles, standalone, gi, arg, call, ret>>

(***************************************************************************)
(* Bounds of the exploration.                                              *)
(***************************************************************************)
MaxLines == 2
MaxSegs == 3
MaxFields == 3

(***************************************************************************)
(* Option and Result values.                                               *)
(***************************************************************************)
None == <<>>
Some(v) == <<v>>
Ok(v) == [ok |-> TRUE, val |-> v]
Err == [ok |-> FALSE, val |-> None]

(***************************************************************************)
(* str primitives.                                                         *)
(***************************************************************************)
starts_with(s, p) == Len(s) >= Len(p) /\ SubSeq(s, 1, Len(p)) = p

ends_with(s, p) == Len(s) >= Len(p) /\ SubSeq(s, Len(s) - Len(p) + 1, Len(s)) = p

Occurrences(s, p) == {i \in 1..(Len(s) - Len(p) + 1) : SubSeq(s, i, i + Len(p) - 1) = p}

\* The positions of the character c in s.
Positions(s, c) == {i \in 1..Len(s) : s[i] = c}

SetMax(S) == CHOOSE x \in S : \A y \in S : y <= x

SetMin(S) == CHOOSE x \in S : \A y \in S : x <= y

rsplit_once_first(s, p) ==
    IF Occurrences(s, p) = {} THEN None
    ELSE LET i == SetMin(Occurrences(s, p))
         IN  Some(<<SubSeq(s, 1, i - 1), SubSeq(s, i + Len(p), Len(s))>>)

\* str::rsplit_once: the parts before and after the LAST occurrence of p.
rsplit_once(s, p) ==
    IF Occurrences(s, p) = {} THEN None
    ELSE LET i == SetMax(Occurrences(s, p))
         IN  Some(<<SubSeq(s, 1, i - 1), SubSeq(s, i + Len(p), Len(s))>>)

\* str::rsplitn(n, c): at most n parts, taken from the right.
RECURSIVE rsplitn(_, _, _)
rsplitn(n, s, c) ==
    IF n = 0 THEN <<>>
    ELSE IF n = 1 \/ Positions(s, c) = {} THEN <<s>>
    ELSE LET i == SetMax(Positions(s, c))
         IN  <<SubSeq(s, i + 1, Len(s))>> \o rsplitn(n - 1, SubSeq(s, 1, i - 1), c)

\* str::split(c): all parts, from the left.
RECURSIVE split(_, _)
split(s, c) ==
    IF Positions(s, c) = {} THEN <<s>>
    ELSE LET i == SetMin(Positions(s, c))
         IN  <<SubSeq(s, 1, i - 1)>> \o split(SubSeq(s, i + 1, Len(s)), c)

Digits == <<"0", "1", "2", "3", "4", "5", "6", "7", "8", "9">>

IsDigit(c) == \E i \in 1..10 : Digits[i] = c

DigitVal(c) == (CHOOSE i \in 1..10 : Digits[i] = c) - 1

RECURSIVE StripZeros(_)
StripZeros(s) == IF s # <<>> /\ s[1] = "0" THEN StripZeros(Tail(s)) ELSE s

\* u64::MAX = 18446744073709551615, as its decimal digits.
U64MaxDigits == <<"1","8","4","4","6","7","4","4","0","7","3","7","0","9","5","5","1","6","1","5">>

\* Lexicographic order of two digit strings of the same length.
RECURSIVE DigitsGreater(_, _)
DigitsGreater(a, b) ==
    IF a = <<>> THEN FALSE
    ELSE IF a[1] # b[1] THEN DigitVal(a[1]) > DigitVal(b[1])
    ELSE DigitsGreater(Tail(a), Tail(b))

\* The value of a digit string exceeds u64::MAX.
Overflows(ds) ==
    LET z == StripZeros(ds)
    IN  \/ Len(z) > Len(U64MaxDigits)
        \/ Len(z) = Len(U64MaxDigits) /\ DigitsGreater(z, U64MaxDigits)

RECURSIVE DecValue(_)
DecValue(ds) == IF ds = <<>> THEN 0 ELSE 10 * DecValue(SubSeq(ds, 1, Len(ds) - 1)) + DigitVal(ds[Len(ds)])

\* str::parse::<u64>() followed by .ok(): an optional '+', then one or more
\* decimal digits whose value fits in 64 bits.
parse_u64(s) ==
    IF s = <<>> THEN None
    ELSE IF s = <<"+">> \/ s = <<"-">> THEN None
    ELSE LET ds == IF s[1] = "+" THEN Tail(s) ELSE s
         IN  IF \E i \in 1..Len(ds) : ~IsDigit(ds[i]) THEN None
             ELSE IF Overflows(ds) THEN None
             ELSE Some(DecValue(ds))

(***************************************************************************)
(* Utf8Path primitives (std::path::Path semantics).                        *)
(***************************************************************************)
RootDir == <<"/">>
CurDir == <<".">>
ParentDir == <<".", ".">>

RECURSIVE DropEmptyAndDot(_)
DropEmptyAndDot(segs) ==
    IF segs = <<>> THEN <<>>
    ELSE IF segs[1] = <<>> \/ segs[1] = CurDir THEN DropEmptyAndDot(Tail(segs))
    ELSE <<segs[1]>> \o DropEmptyAndDot(Tail(segs))

\* Path::components: a leading RootDir or CurDir, then the non-empty
\* segments with "." normalised away.
components(p) ==
    LET segs == split(p, "/")
        head == IF p # <<>> /\ p[1] = "/" THEN <<RootDir>>
                ELSE IF segs[1] = CurDir THEN <<CurDir>>
                ELSE <<>>
    IN  head \o DropEmptyAndDot(segs)

IsNormal(c) == c # RootDir /\ c # CurDir /\ c # ParentDir

\* Path::file_name: the last component when it is a normal one.
file_name(p) ==
    LET cs == components(p)
    IN  IF cs = <<>> THEN None
        ELSE IF IsNormal(cs[Len(cs)]) THEN Some(cs[Len(cs)])
        ELSE None

\* Path::parent, as the components of the parent.
parent(p) ==
    LET cs == components(p)
    IN  IF cs = <<>> \/ cs[Len(cs)] = RootDir THEN None
        ELSE Some(SubSeq(cs, 1, Len(cs) - 1))

\* Path::starts_with: a prefix of whole components.
path_starts_with(p, base) ==
    LET cs == components(p)
        bs == components(base)
    IN  Len(cs) >= Len(bs) /\ SubSeq(cs, 1, Len(bs)) = bs

(***************************************************************************)
(* Literals.                                                               *)
(***************************************************************************)
S_link == <<"l", "i", "n", "k">>
S_run == <<"/", "r", "u", "n">>
S_proc == <<"/", "p", "r", "o", "c">>
S_arrow == <<" ", "-", ">", " ">>

(***************************************************************************)
(* GCRoot (a record [path, target]).                                       *)
(***************************************************************************)
get_profile_gen_any_suffix(root) ==
    LET fnm == file_name(root.path)
    IN  IF fnm = None THEN None
        ELSE IF Cardinality(Positions(fnm[1], "-")) >= 2
             THEN parse_u64(rsplitn(3, fnm[1], "-")[2])
             ELSE None

get_profile_gen(root) ==
    LET fnm == file_name(root.path)
    IN  IF fnm = None THEN None
        ELSE IF Cardinality(Positions(fnm[1], "-")) >= 2
             THEN LET iter == rsplitn(3, fnm[1], "-")
                  IN  IF iter[1] = S_link THEN parse_u64(iter[2]) ELSE None
             ELSE None

get_profile_path(root) ==
    IF get_profile_gen(root) = None THEN None
    ELSE Some(rsplitn(3, root.path, "-")[3])

\* nix::unistd::access(dir, W_OK): w is the answer of the system for an
\* existing directory; the empty path never exists.
access_w(dir, w) == dir # <<>> /\ w

can_delete_file(path, w) ==
    IF parent(path) = None THEN FALSE ELSE access_w(parent(path)[1], w)

deletable_no_run_check(root, w) ==
    /\ ~path_starts_with(root.path, S_proc)
    /\ can_delete_file(root.path, w)

deletable_no_access_check(root, w) ==
    /\ ~path_starts_with(root.path, S_run)
    /\ ~path_starts_with(root.path, S_proc)

deletable(root, w) ==
    /\ ~path_starts_with(root.path, S_run)
    /\ ~path_starts_with(root.path, S_proc)
    /\ can_delete_file(root.path, w)

\* impl Display for GCRoot
display(root) == root.path \o S_arrow \o root.target

Parsed(v) == [panic |-> FALSE, val |-> v]
Panicked == [panic |-> TRUE, val |-> None]

parse_nix_store_gc_line_first(line) ==
    LET sp == rsplit_once_first(line, S_arrow)
    IN  IF sp = None THEN Panicked
        ELSE LET path == sp[1][1]
                 target == sp[1][2]
             IN  IF ~starts_with(path, S_proc) /\ ~(starts_with(path, <<"{">>) /\ ends_with(path, <<"}">>))
                 THEN Parsed(Some([path |-> path, target |-> target]))
                 ELSE Parsed(None)

parse_nix_store_gc_line_skip(line) ==
    LET sp == rsplit_once(line, S_arrow)
    IN  IF sp = None THEN Parsed(None)
        ELSE LET path == sp[1][1]
                 target == sp[1][2]
             IN  IF ~starts_with(path, S_proc) /\ ~(starts_with(path, <<"{">>) /\ ends_with(path, <<"}">>))
                 THEN Parsed(Some([path |-> path, target |-> target]))
                 ELSE Parsed(None)

\* parse_nix_store_gc_line: the expect() panics on a line without the
\* separator; otherwise the line gives a root or is dropped.
parse_nix_store_gc_line(line) ==
    LET sp == rsplit_once(line, S_arrow)
    IN  IF sp = None THEN Panicked
        ELSE LET path == sp[1][1]
                 target == sp[1][2]
             IN  IF ~starts_with(path, S_proc) /\ ~(starts_with(path, <<"{">>) /\ ends_with(path, <<"}">>))
                 THEN Parsed(Some([path |-> path, target |-> target]))
                 ELSE Parsed(None)

(***************************************************************************)
(* Ordering (derive(Ord) on GCRoot, Ord of Path: component by component).  *)
(***************************************************************************)
\* The characters of the model in ascending byte order.
AsciiOrder ==
    <<" ", "+", "-", ".", "/", "0", "1", "2", "3", "4", "5", "6", "7", "8", "9", ">",
      "a", "b", "c", "e", "f", "h", "i", "k", "l", "m", "n", "o", "p", "q", "r", "s",
      "t", "u", "x", "y", "z", "{", "}">>

Code(c) == CHOOSE i \in 1..Len(AsciiOrder) : AsciiOrder[i] = c

RECURSIVE str_cmp(_, _)
str_cmp(a, b) ==
    IF a = <<>> /\ b = <<>> THEN 0
    ELSE IF a = <<>> THEN -1
    ELSE IF b = <<>> THEN 1
    ELSE IF Code(a[1]) < Code(b[1]) THEN -1
    ELSE IF Code(a[1]) > Code(b[1]) THEN 1
    ELSE str_cmp(Tail(a), Tail(b))

\* Variant order of std::path::Component.
CompKind(c) == IF c = RootDir THEN 1 ELSE IF c = CurDir THEN 2 ELSE IF c = ParentDir THEN 3 ELSE 4

comp_cmp(a, b) ==
    IF CompKind(a) < CompKind(b) THEN -1
    ELSE IF CompKind(a) > CompKind(b) THEN 1
    ELSE IF CompKind(a) = 4 THEN str_cmp(a, b)
    ELSE 0

RECURSIVE comps_cmp(_, _)
comps_cmp(x, y) ==
    IF x = <<>> /\ y = <<>> THEN 0
    ELSE IF x = <<>> THEN -1
    ELSE IF y = <<>> THEN 1
    ELSE IF comp_cmp(x[1], y[1]) # 0 THEN comp_cmp(x[1], y[1])
    ELSE comps_cmp(Tail(x), Tail(y))

path_cmp(p, q) == comps_cmp(components(p), components(q))

gcroot_cmp(r, s) ==
    IF path_cmp(r.path, s.path) # 0 THEN path_cmp(r.path, s.path)
    ELSE path_cmp(r.target, s.target)

Perms(n) == {f \in [1..n -> 1..n] : \A i, j \in 1..n : f[i] = f[j] => i = j}

\* Vec<GCRoot>::sort_unstable: every ascending arrangement of the elements
\* (elements that compare equal may come out in either order).
sort_unstable(s) ==
    {t \in {[i \in 1..Len(s) |-> s[f[i]]] : f \in Perms(Len(s))} :
        \A i \in 1..(Len(s) - 1) : gcroot_cmp(t[i], t[i + 1]) <= 0}

(***************************************************************************)
(* The filesystem: fs maps the paths that exist to an entry                *)
(* [kind, readable, utf8, target]; any other path is absent.               *)
(***************************************************************************)
Absent == [kind |-> "absent", readable |-> FALSE, utf8 |-> TRUE, target |-> <<>>]

lookup(f, p) ==
    IF \E k \in DOMAIN f : components(k) = components(p)
    THEN f[CHOOSE k \in DOMAIN f : components(k) = components(p)]
    ELSE Absent

\* Utf8Path::is_symlink (does not follow the link).
is_symlink(f, p) == lookup(f, p).kind = "link"

\* access(path, R_OK)
can_read_file(entry) == entry.kind # "absent" /\ entry.readable

read_active_gen_last_part(entry) ==
    IF can_read_file(entry)
    THEN IF entry.kind # "link" \/ ~entry.utf8 THEN Err
         ELSE LET name == file_name(entry.target)
              IN  IF name = None THEN Ok(None)
                  ELSE Ok(parse_u64(rsplitn(3, name[1], "-")[1]))
    ELSE Ok(None)

\* read_active_gen on the entry found at the profile path.
read_active_gen(entry) ==
    IF can_read_file(entry)
    THEN IF entry.kind # "link" \/ ~entry.utf8 THEN Err
         ELSE LET name == file_name(entry.target)
              IN  IF name = None THEN Ok(None)
                  ELSE LET parts == rsplitn(3, name[1], "-")
                       IN  IF Len(parts) < 2 THEN Ok(None)
                           ELSE Ok(parse_u64(parts[2]))
    ELSE Ok(None)

(***************************************************************************)
(* GCRoots: grouping.                                                      *)
(***************************************************************************)
\* The profile paths of create_profiles before sorting.
candidate_paths_unchecked(roots, f) ==
    {get_profile_path(roots[i])[1] : i \in {j \in 1..Len(roots) : get_profile_path(roots[j]) # None}}

candidate_paths(roots, f) ==
    {p \in {get_profile_path(roots[i])[1] :
                i \in {j \in 1..Len(roots) : get_profile_path(roots[j]) # None}} :
        is_symlink(f, p)}

\* sort_unstable + dedup of the profile paths: one path of every class of
\* equal paths (PartialEq of Utf8PathBuf compares components), ascending.
sorted_dedup(cand) ==
    {s \in UNION {[1..n -> cand] : n \in 0..Cardinality(cand)} :
        /\ \A i \in 1..(Len(s) - 1) : path_cmp(s[i], s[i + 1]) < 0
        /\ \A c \in cand : \E i \in 1..Len(s) : path_cmp(s[i], c) = 0}

\* The results create_profiles can return.
create_profiles(roots, f) ==
    {IF \E i \in 1..Len(s) : ~read_active_gen(lookup(f, s[i])).ok
     THEN Err
     ELSE Ok([i \in 1..Len(s) |->
                [path |-> s[i],
                 active_generation |-> read_active_gen(lookup(f, s[i])).val,
                 generations |-> <<>>]])
     : s \in sorted_dedup(candidate_paths(roots, f))}

\* profiles.iter_mut().find(|p| p.path.as_str() == profile_path): the index
\* of the first profile with that path, 0 when there is none.
find_profile(profs, path) ==
    IF \E i \in 1..Len(profs) : profs[i].path = path
    THEN SetMin({i \in 1..Len(profs) : profs[i].path = path})
    ELSE 0

btree_insert_if_vacant(m, k, v) ==
    IF k \in DOMAIN m THEN m ELSE [x \in DOMAIN m \cup {k} |-> IF x = k THEN v ELSE m[x]]

\* BTreeMap::insert
btree_insert(m, k, v) == [x \in DOMAIN m \cup {k} |-> IF x = k THEN v ELSE m[x]]

populate_one_also_standalone(root, profs, alone) ==
    LET pp == get_profile_path(root)
        idx == IF pp = None THEN 0 ELSE find_profile(profs, pp[1])
    IN  IF idx # 0
        THEN [profiles |-> [profs EXCEPT ![idx].generations =
                                btree_insert(@, get_profile_gen(root)[1], root)],
              standalone |-> Append(alone, root)]
        ELSE [profiles |-> profs, standalone |-> Append(alone, root)]

\* One iteration of the for_each of populate_profiles.
populate_one(root, profs, alone) ==
    LET pp == get_profile_path(root)
        idx == IF pp = None THEN 0 ELSE find_profile(profs, pp[1])
    IN  IF idx # 0
        THEN [profiles |-> [profs EXCEPT ![idx].generations =
                                btree_insert(@, get_profile_gen(root)[1], root)],
              standalone |-> alone]
        ELSE [profiles |-> profs, standalone |-> Append(alone, root)]

(***************************************************************************)
(* The listings and filesystems explored.                                  *)
(***************************************************************************)
Dash == <<"-">>
GenLink(base, n) == base \o Dash \o n \o Dash \o S_link
Line(p, t) == p \o S_arrow \o t

P_a_p == <<"/", "a", "/", "p">>
P_a_q == <<"/", "a", "/", "q">>
P_a_slash_p == <<"/", "a", "/", "/", "p">>
P_b_o == <<"/", "b", "/", "o">>
P_proc_1 == <<"/", "p", "r", "o", "c", "/", "1">>
P_marker == <<"{", "m", "}">>
T_x == <<"/", "s", "/", "x">>
T_y == <<"/", "s", "/", "y">>
N_1 == <<"1">>
N_2 == <<"2">>

Lines ==
    { Line(GenLink(P_a_p, N_1), T_x),
      Line(GenLink(P_a_p, N_1), T_y),
      Line(GenLink(P_a_p, N_2), T_x),
      Line(GenLink(P_a_p, <<"0", "1">>), T_x),
      Line(GenLink(P_a_slash_p, N_1), T_x),
      Line(GenLink(P_a_q, N_1), T_x),
      Line(P_a_p, GenLink(P_a_p, N_1)),
      Line(P_b_o, T_x),
      Line(P_proc_1, T_x),
      Line(P_marker, T_x),
      P_proc_1 }

Listings == UNION {[1..n -> Lines] : n \in 0..MaxLines}

\* What the command can give: its exit status, whether its output is UTF-8
\* and, when it is, the lines of the output (those of a failed command are
\* never read; one line stands for them).
Outputs ==
    {[status |-> 0, utf8 |-> TRUE, lines |-> l] : l \in Listings}
    \cup {[status |-> 1, utf8 |-> TRUE, lines |-> <<l>>] : l \in Lines}
    \cup {[status |-> st, utf8 |-> FALSE, lines |-> <<>>] : st \in {0, 1}}

LinkTo(t) == [kind |-> "link", readable |-> TRUE, utf8 |-> TRUE, target |-> t]

EntriesP ==
    { Absent,
      [kind |-> "link", readable |-> FALSE, utf8 |-> TRUE, target |-> <<"p", "-", "1", "-", "l", "i", "n", "k">>],
      [kind |-> "link", readable |-> TRUE, utf8 |-> FALSE, target |-> <<>>],
      LinkTo(<<"p", "-", "1", "-", "l", "i", "n", "k">>),
      LinkTo(GenLink(P_a_p, N_2)) }

EntriesQ == { Absent, LinkTo(GenLink(P_a_q, N_1)) }

Filesystems == {[k \in {P_a_p, P_a_q} |-> IF k = P_a_p THEN ep ELSE eq] : ep \in EntriesP, eq \in EntriesQ}

\* The scenario of a profile with two generations and one standalone root.
P_a_profile == <<"/", "a", "/", "p", "r", "o", "f", "i", "l", "e">>
P_b_other == <<"/", "b", "/", "o", "t", "h", "e", "r">>
NixStore == <<"/", "n", "i", "x", "/", "s", "t", "o", "r", "e", "/">>
T_xxx == NixStore \o <<"x", "x", "x">>
T_yyy == NixStore \o <<"y", "y", "y">>
T_zzz == NixStore \o <<"z", "z", "z">>

ScenarioLines ==
    << Line(GenLink(P_a_profile, N_1), T_xxx),
       Line(GenLink(P_a_profile, N_2), T_yyy),
       Line(P_a_profile, GenLink(P_a_profile, N_2)),
       Line(P_b_other, T_zzz) >>

ScenarioFs == [k \in {P_a_profile} |-> LinkTo(GenLink(P_a_profile, N_2))]

(***************************************************************************)
(* from_nix_store_command as a state machine.                              *)
(*   pc: start -> parse -> populate -> done -> queried, or error / panic.  *)
(***************************************************************************)
NoCall == [fn |-> "none"]

Init ==
    /\ pc = "start"
    /\ \/ /\ output \in Outputs
          /\ fs \in Filesystems
       \/ /\ output = [status |-> 0, utf8 |-> TRUE, lines |-> ScenarioLines]
          /\ fs = ScenarioFs
    /\ li = 1
    /\ gcroots = <<>>
    /\ profiles = <<>>
    /\ standalone = <<>>
    /\ gi = 1
    /\ arg = <<>>
    /\ call = NoCall
    /\ ret = None

\* parse_nix_store_gc_output, up to the first line: the exit status and the
\* UTF-8 check.
CheckOutput ==
    /\ pc = "start"
    /\ pc' = IF output.status = 0 /\ output.utf8 THEN "parse" ELSE "error"
    /\ UNCHANGED <<output, fs, li, gcroots, profiles, standalone, gi, arg, call, ret>>

\* filter_map(parse_nix_store_gc_line): one line of the output.
ParseLine ==
    /\ pc = "parse"
    /\ li <= Len(output.lines)
    /\ LET r == parse_nix_store_gc_line(output.lines[li])
       IN  IF r.panic
           THEN /\ pc' = "panic"
                /\ UNCHANGED <<li, gcroots>>
           ELSE /\ pc' = "parse"
                /\ li' = li + 1
                /\ gcroots' = IF r.val = None THEN gcroots ELSE Append(gcroots, r.val[1])
    /\ UNCHANGED <<output, fs, profiles, standalone, gi, arg, call, ret>>

\* group_gcroots: create_profiles.  With no root to populate, grouping ends
\* here.
CreateProfiles ==
    /\ pc = "parse"
    /\ li > Len(output.lines)
    /\ \E r \in create_profiles(gcroots, fs) :
         IF r.ok
         THEN /\ profiles' = r.val
              /\ pc' = IF gcroots = <<>> THEN "done" ELSE "populate"
         ELSE /\ pc' = "error"
              /\ UNCHANGED profiles
    /\ UNCHANGED <<output, fs, li, gcroots, standalone, gi, arg, call, ret>>

\* group_gcroots: one iteration of populate_profiles; after the last one,
\* standalone.sort_unstable() and the model is returned.
PopulateStep ==
    /\ pc = "populate"
    /\ gi <= Len(gcroots)
    /\ LET r == populate_one(gcroots[gi], profiles, standalone)
       IN  /\ profiles' = r.profiles
           /\ gi' = gi + 1
           /\ IF gi = Len(gcroots)
              THEN /\ standalone' \in sort_unstable(r.standalone)
                   /\ pc' = "done"
              ELSE /\ standalone' = r.standalone
                   /\ pc' = "populate"
    /\ UNCHANGED <<output, fs, li, gcroots, arg, call, ret>>

\* The roots of the finished model, with the profile that holds them
\* (0 for a standalone root) and their key in the generation map.
ModelRoots ==
    {[root |-> standalone[i], profile |-> 0, key |-> 0] : i \in 1..Len(standalone)}
    \cup UNION {{[root |-> profiles[i].generations[g], profile |-> i, key |-> g] :
                    g \in DOMAIN profiles[i].generations} : i \in 1..Len(profiles)}

\* A consumer of the model asks whether a root is deletable; w is the
\* answer of access(parent, W_OK).
QueryDeletable ==
    /\ pc = "done"
    /\ pc' = "queried"
    /\ \E m \in ModelRoots, w \in BOOLEAN :
         /\ call' = [fn |-> "deletable", root |-> m.root, profile |-> m.profile,
                     key |-> m.key, w |-> w]
         /\ ret' = deletable(m.root, w)
    /\ UNCHANGED <<output, fs, li, gcroots, profiles, standalone, gi, arg>>

Next ==
    \/ CheckOutput
    \/ ParseLine
    \/ CreateProfiles
    \/ PopulateStep
    \/ QueryDeletable

Spec == Init /\ [][Next]_vars

(***************************************************************************)
(* The functions of gcroot.rs applied one at a time to a string drawn      *)
(* from a larger set: paths <dir><segment>-<segment>-...<suffix> and       *)
(* lines <field> -> <field> -> ...                                         *)
(***************************************************************************)
\* 2^64, the smallest number that does not fit in a u64.
N_2pow64 == <<"1","8","4","4","6","7","4","4","0","7","3","7","0","9","5","5","1","6","1","6">>

SegAtoms == { <<>>, <<"p">>, N_1, <<"+", "1">>, S_link, <<"p", "-", "x">>, N_2pow64 }

DirAtoms ==
    { <<>>, <<"/">>, <<"/", "a", "/">>, S_run \o <<"/">>, S_proc \o <<"/">>,
      S_run \o <<"n", "e", "r", "/">>, <<"/", "a", "-", "b", "/">> }

SuffixAtoms == { <<>>, <<"/">> }

FieldAtoms ==
    { <<>>, GenLink(P_a_p, N_1), T_x, P_proc_1, P_marker, <<"{">>, <<"a", " ", "-">>, <<">", " ", "b">> }

RECURSIVE Join(_, _)
Join(parts, sep) ==
    IF parts = <<>> THEN <<>>
    ELSE IF Len(parts) = 1 THEN parts[1]
    ELSE parts[1] \o sep \o Join(Tail(parts), sep)

FnPaths ==
    {d \o Join(segs, Dash) \o x :
        d \in DirAtoms, x \in SuffixAtoms, segs \in UNION {[1..n -> SegAtoms] : n \in 0..MaxSegs}}

FnLines == {Join(fields, S_arrow) : fields \in UNION {[1..n -> FieldAtoms] : n \in 1..MaxFields}}

FnEntries(t) ==
    { Absent,
      [kind |-> "file", readable |-> TRUE, utf8 |-> TRUE, target |-> <<>>],
      [kind |-> "link", readable |-> FALSE, utf8 |-> TRUE, target |-> t],
      [kind |-> "link", readable |-> TRUE, utf8 |-> FALSE, target |-> <<>>],
      LinkTo(t) }

InitFn ==
    /\ pc = "fn"
    /\ arg \in FnPaths \cup FnLines
    /\ output = [status |-> 0, utf8 |-> TRUE, lines |-> <<>>]
    /\ fs = <<>>
    /\ li = 1
    /\ gcroots = <<>>
    /\ profiles = <<>>
    /\ standalone = <<>>
    /\ gi = 1
    /\ call = NoCall
    /\ ret = None

Returned(c, r) ==
    /\ pc' = "returned"
    /\ call' = c
    /\ ret' = r
    /\ UNCHANGED <<output, fs, li, gcroots, profiles, standalone, gi, arg>>

\* get_profile_gen and get_profile_path of the root at path arg.
CallClassify ==
    /\ pc = "fn"
    /\ LET root == [path |-> arg, target |-> T_x]
       IN  Returned([fn |-> "classify"],
                    [gen |-> get_profile_gen(root), path |-> get_profile_path(root)])

\* deletable of the root at path arg.
CallDeletable ==
    /\ pc = "fn"
    /\ \E w \in BOOLEAN :
         Returned([fn |-> "deletable", w |-> w], deletable([path |-> arg, target |-> T_x], w))

\* parse_nix_store_gc_line of the line arg.
CallParseLine ==
    /\ pc = "fn"
    /\ Returned([fn |-> "parse_line"], parse_nix_store_gc_line(arg))

\* read_active_gen of a profile path whose entry is e; a link points to arg.
CallReadActiveGen ==
    /\ pc = "fn"
    /\ \E e \in FnEntries(arg) :
         Returned([fn |-> "read_active_gen", entry |-> e], read_active_gen(e))

NextFn ==
    \/ CallClassify
    \/ CallDeletable
    \/ CallParseLine
    \/ CallReadActiveGen

SpecFn == InitFn /\ [][NextFn]_vars

(***************************************************************************)
(* Vocabulary of the properties.                                           *)
(***************************************************************************)
IsDecimal(n) == n # <<>> /\ \A i \in 1..Len(n) : IsDigit(n[i])

Unsigned(n) == IF n # <<>> /\ n[1] = "+" THEN Tail(n) ELSE n

\* A decimal numeral, with an optional '+', whose value fits in 64 bits.
IsU64Numeral(n) == IsDecimal(Unsigned(n)) /\ ~Overflows(Unsigned(n))

HasArrow(s) == \E i \in 1..(Len(s) - 3) : SubSeq(s, i, i + 3) = S_arrow

\* The position of the middle '-' of a file name <name>-<n>-link.
FormSplits(f) ==
    {k \in 1..(Len(f) - 6) : f[k] = "-" /\ SubSeq(f, Len(f) - 4, Len(f)) = Dash \o S_link}

FormName(f, k) == SubSeq(f, 1, k - 1)
FormNumber(f, k) == SubSeq(f, k + 1, Len(f) - 5)

\* path is base followed by -<n>-link and at most trailing separators.
StripsTo(path, base, n) ==
    /\ starts_with(path, GenLink(base, n))
    /\ \A i \in (Len(base) + Len(n) + 7)..Len(path) : path[i] \in {"/", "."}

\* path is dir or lies below it.
Under(path, dir) == path = dir \/ starts_with(path, dir \o <<"/">>)

\* C5 as stated: a file name <name>-<n>-link with n any non-negative decimal
\* integer (here even with an optional '+') classifies to generation n and to
\* a base path; every other path classifies to no match.
C5_Original ==
    (pc = "returned" /\ call.fn = "classify") =>
        LET f == file_name(arg)
            ks == IF f = None THEN {}
                  ELSE {k \in FormSplits(f[1]) : IsDecimal(Unsigned(FormNumber(f[1], k)))}
        IN  IF ks # {}
            THEN \A k \in ks :
                   /\ ret.gen # None
                   /\ ~Overflows(Unsigned(FormNumber(f[1], k)))
                        => ret.gen = Some(DecValue(Unsigned(FormNumber(f[1], k))))
                   /\ ret.path # None
            ELSE ret.gen = None /\ ret.path = None

\* C5 amended: a file name <name>-<n>-link with n a decimal numeral, with an
\* optional '+', that fits in 64 bits classifies to generation n and to the
\* path without the suffix -<n>-link (whose file name ends with <name>); every
\* other path classifies to no match in both functions.
C5_Classifier ==
    (pc = "returned" /\ call.fn = "classify") =>
        LET f == file_name(arg)
            ks == IF f = None THEN {} ELSE {k \in FormSplits(f[1]) : IsU64Numeral(FormNumber(f[1], k))}
        IN  IF ks # {}
            THEN \A k \in ks :
                   /\ ret.gen = Some(DecValue(Unsigned(FormNumber(f[1], k))))
                   /\ ret.path # None
                   /\ StripsTo(arg, ret.path[1], FormNumber(f[1], k))
                   /\ ends_with(ret.path[1], FormName(f[1], k))
            ELSE ret.gen = None /\ ret.path = None

C5_Witness ==
    /\ pc = "returned"
    /\ call.fn = "classify"
    /\ arg = <<"/", "a", "-", "b", "/">> \o GenLink(<<"p", "-", "x">>, N_1) \o <<"/">>
    /\ ret.gen = Some(1)
    /\ ret.path = Some(<<"/", "a", "-", "b", "/", "p", "-", "x">>)

\* The line is dropped by an exclusion rule: its path starts with /proc or
\* is wrapped in braces.
Excluded(line) ==
    \/ starts_with(line, S_proc)
    \/ /\ starts_with(line, <<"{">>)
       /\ \E i \in 2..(Len(line) - 3) :
            /\ SubSeq(line, i - 1, i + 3) = <<"}">> \o S_arrow
            /\ ~HasArrow(SubSeq(line, i + 1, Len(line)))

\* C6: a line with a separator that no exclusion rule drops parses to one
\* root, split at the last separator (the target holds none), and the
\* Display of that root is the line again.
C6_ParseRoundTrip ==
    (pc = "returned" /\ call.fn = "parse_line" /\ HasArrow(arg) /\ ~Excluded(arg)) =>
        /\ ~ret.panic
        /\ ret.val # None
        /\ display(ret.val[1]) = arg
        /\ ~HasArrow(ret.val[1].target)

C6_Witness ==
    /\ pc = "returned"
    /\ call.fn = "parse_line"
    /\ arg = Join(<<GenLink(P_a_p, N_1), <<"a", " ", "-">>, <<">", " ", "b">>>>, S_arrow)
    /\ ret.val = Some([path |-> Join(<<GenLink(P_a_p, N_1), <<"a", " ", "-">>>>, S_arrow),
                       target |-> <<">", " ", "b">>])

\* C7: a root under /run or under /proc is never deletable, whatever the
\* write permission on its parent directory.
C7_RunProcNotDeletable ==
    (pc = "returned" /\ call.fn = "deletable" /\ (Under(arg, S_run) \/ Under(arg, S_proc))) =>
        ret = FALSE

C7_Witness ==
    /\ pc = "returned"
    /\ call.fn = "deletable"
    /\ call.w
    /\ arg = S_run \o <<"/", "p">>
    /\ ret = FALSE

\* C4 as stated: for a readable profile symlink, read_active_gen returns
\* exactly what the path classifier returns for the target of the link.
C4_ActiveGenIsClassifier ==
    (pc = "returned" /\ call.fn = "read_active_gen"
        /\ call.entry.kind = "link" /\ call.entry.readable /\ call.entry.utf8) =>
        ret = Ok(get_profile_gen([path |-> call.entry.target, target |-> <<>>]))

(***************************************************************************)
(* Properties of from_nix_store_command.                                   *)
(***************************************************************************)
RECURSIVE SumGenerations(_)
SumGenerations(profs) ==
    IF profs = <<>> THEN 0
    ELSE Cardinality(DOMAIN profs[1].generations) + SumGenerations(Tail(profs))

\* The profile that takes root i (0: none), by the path of the profile.
ProfileOf(i) ==
    IF get_profile_path(gcroots[i]) = None THEN 0
    ELSE IF \E k \in 1..Len(profiles) : profiles[k].path = get_profile_path(gcroots[i])[1]
         THEN CHOOSE k \in 1..Len(profiles) : profiles[k].path = get_profile_path(gcroots[i])[1]
         ELSE 0

SameSlot(i, j) ==
    /\ get_profile_path(gcroots[i]) = get_profile_path(gcroots[j])
    /\ get_profile_gen(gcroots[i]) = get_profile_gen(gcroots[j])

\* Root i goes to a profile and a later root has the same profile and
\* generation.
Overwritten(i) == ProfileOf(i) # 0 /\ \E j \in (i + 1)..Len(gcroots) : SameSlot(i, j)

InStandalone(r) == \E k \in 1..Len(standalone) : standalone[k] = r

MapSlots(r) ==
    {s \in UNION {{<<k, g>> : g \in DOMAIN profiles[k].generations} : k \in 1..Len(profiles)} :
        profiles[s[1]].generations[s[2]] = r}

\* C1 as stated: the sizes of the generation maps and the length of the
\* standalone list add up to the number of parsed roots.
C1_CountConserved ==
    pc = "done" => SumGenerations(profiles) + Len(standalone) = Len(gcroots)

\* C1 amended: no parsed root is both standalone and in a generation map or
\* in two maps; a root is in neither only when a later root of the same
\* profile and generation has replaced it; the sizes add up to the number of
\* parsed roots minus the number of replaced roots.
C1_Partition ==
    pc = "done" =>
        /\ SumGenerations(profiles) + Len(standalone)
             = Len(gcroots) - Cardinality({i \in 1..Len(gcroots) : Overwritten(i)})
        /\ \A i \in 1..Len(gcroots) :
             /\ ~(InStandalone(gcroots[i]) /\ MapSlots(gcroots[i]) # {})
             /\ Cardinality(MapSlots(gcroots[i])) <= 1
             /\ ~Overwritten(i) => (InStandalone(gcroots[i]) \/ MapSlots(gcroots[i]) # {})
             /\ ProfileOf(i) = 0 <=> InStandalone(gcroots[i])

C1_Witness ==
    /\ pc = "done"
    /\ Len(gcroots) = 2
    /\ SumGenerations(profiles) = 1
    /\ Len(standalone) = 1

\* C2 as stated: a root of a generation map is deletable only when its
\* profile has a known active generation other than the root's.
C2_DeletableOnlyInactive ==
    (pc = "queried" /\ call.profile # 0 /\ ret = TRUE) =>
        /\ profiles[call.profile].active_generation # None
        /\ profiles[call.profile].active_generation # Some(call.key)

\* C2 amended: a root of a generation map is deletable exactly when it is
\* not under /run or /proc and its parent directory is writable; the active
\* generation of the profile plays no part.
C2_DeletableIgnoresActive ==
    (pc = "queried" /\ call.profile # 0) =>
        ret = (/\ ~Under(call.root.path, S_run)
               /\ ~Under(call.root.path, S_proc)
               /\ call.w)

C2_Witness ==
    /\ pc = "queried"
    /\ call.profile # 0
    /\ profiles[call.profile].active_generation = Some(call.key)
    /\ ret = TRUE

IsScenario == output.lines = ScenarioLines /\ fs = ScenarioFs

ScenarioProfile ==
    /\ Len(profiles) = 1
    /\ profiles[1].path = P_a_profile
    /\ DOMAIN profiles[1].generations = {1, 2}
    /\ profiles[1].active_generation = Some(2)

\* C3 as stated: the scenario gives one profile /a/profile with generations
\* {1, 2}, active generation 2, and /b/other as the only standalone root.
C3_ScenarioOneStandalone ==
    (pc = "done" /\ IsScenario) =>
        /\ ScenarioProfile
        /\ Len(standalone) = 1
        /\ standalone[1].path = P_b_other

\* C3 amended: the scenario gives one profile /a/profile with generations
\* {1, 2}, active generation 2, and two standalone roots: the profile link
\* /a/profile itself, then /b/other.
C3_Scenario ==
    (pc = "done" /\ IsScenario) =>
        /\ ScenarioProfile
        /\ profiles[1].generations[1] = [path |-> GenLink(P_a_profile, N_1), target |-> T_xxx]
        /\ profiles[1].generations[2] = [path |-> GenLink(P_a_profile, N_2), target |-> T_yyy]
        /\ standalone = << [path |-> P_a_profile, target |-> GenLink(P_a_profile, N_2)],
                           [path |-> P_b_other, target |-> T_zzz] >>

C3_Witness == pc = "done" /\ IsScenario /\ Len(profiles) = 1

BadOutput ==
    \/ output.status # 0
    \/ ~output.utf8
    \/ \E i \in 1..Len(output.lines) : ~HasArrow(output.lines[i])

\* C8: when the command fails, its output is not UTF-8 or some line has no
\* separator, the run never gets to grouping: it is still reading lines or
\* has ended in an error or a panic, and no profile or standalone list exists.
C8_AllOrNothing ==
    BadOutput =>
        /\ pc \in {"start", "parse", "error", "panic"}
        /\ pc = "parse" => li <= Len(output.lines)
        /\ profiles = <<>>
        /\ standalone = <<>>

C8_Witness ==
    /\ pc = "panic"
    /\ Len(gcroots) = 1
    /\ output.lines[li] = P_proc_1

\* Root i fits the generation pattern and its base path is not a symlink.
NoLiveProfile(i) ==
    /\ get_profile_path(gcroots[i]) # None
    /\ ~is_symlink(fs, get_profile_path(gcroots[i])[1])

\* C9: a root that fits the generation pattern while its base path is not
\* an existing symlink gets no profile and ends in the standalone list; an
\* error of grouping never comes from such a root.
C9_NoProfileWithoutSymlink ==
    /\ pc \in {"populate", "done"} =>
         \A i \in 1..Len(gcroots) : NoLiveProfile(i) =>
             \A k \in 1..Len(profiles) :
                 path_cmp(profiles[k].path, get_profile_path(gcroots[i])[1]) # 0
    /\ pc = "done" =>
         \A i \in 1..Len(gcroots) : NoLiveProfile(i) =>
             InStandalone(gcroots[i]) /\ MapSlots(gcroots[i]) = {}
    /\ (pc = "error" /\ ~BadOutput) =>
         \E i \in 1..Len(gcroots) :
             get_profile_path(gcroots[i]) # None /\ ~NoLiveProfile(i)

C9_Witness ==
    /\ pc = "done"
    /\ Len(profiles) = 1
    /\ \E i \in 1..Len(gcroots) : NoLiveProfile(i) /\ InStandalone(gcroots[i])

\* C10: every key of a generation map holds the last root of the input that
\* classifies to that profile and generation, and the generation of the
\* stored root is its key.
C10_LastWins ==
    pc = "done" =>
        \A k \in 1..Len(profiles) : \A g \in DOMAIN profiles[k].generations :
            /\ get_profile_gen(profiles[k].generations[g]) = Some(g)
            /\ \E i \in 1..Len(gcroots) :
                 /\ profiles[k].generations[g] = gcroots[i]
                 /\ ProfileOf(i) = k
                 /\ \A j \in (i + 1)..Len(gcroots) :
                      ~(ProfileOf(j) = k /\ get_profile_gen(gcroots[j]) = Some(g))

C10_Witness ==
    /\ pc = "done"
    /\ Len(gcroots) = 2
    /\ gcroots[1] # gcroots[2]
    /\ Overwritten(1)
    /\ profiles[1].generations[1] = gcroots[2]

====
